---- MODULE Spec2Model ----
(***************************************************************************)
(* The allocation engine of the internship allocation backend:             *)
(* run_allocation (Hungarian), run_ensemble_allocation (ensemble greedy)    *)
(* and run_nlp_allocation (GloVe greedy) over the alloc_run and            *)
(* match_result tables.                                                    *)
(*                                                                         *)
(* Numbers.  Python floats are modelled as exact rationals on fixed grids: *)
(*   cgpa               hundredths            (8.0  is 800)                *)
(*   a signal in [0,1]  1/SigScale            (1.0  is SigScale)           *)
(*   a weight           1/WUnit               (0.65 is 13)                 *)
(*   a score            1/One, One = WUnit * SigScale                      *)
(*   a persisted score  1/Round4One  (round(x, 4))                         *)
(***************************************************************************)
EXTENDS Integers, Sequences, FiniteSets, TLC

\* ---------------------------------------------------------------- bounds
NumStudents == 3
NumJobs == 2
MaxRuns == 3
NumProcs == 2

\* ----------------------------------------------------------------- grids
SigScale == 1200 * 350
WUnit == 4 * 5
One == WUnit * SigScale
\* the ensemble's weighted blend multiplies a score by a method weight
EOne == WUnit * One
Round4One == 10000

NULL == 0 - 1

Students == 1 .. NumStudents
Jobs == 1 .. NumJobs
Procs == 1 .. NumProcs

\* ------------------------------------------------- the student table rows
\* s.cgpa (nullable), s.skills_text (split into its raw tokens),
\* s.location_pref, s.email; rows repeat with period 4.
StudentCgpa(s) ==
    CASE s % 4 = 1 -> 800
      [] s % 4 = 2 -> NULL
      [] s % 4 = 3 -> 500
      [] OTHER     -> 950

StudentSkills(s) ==
    CASE s % 4 = 1 -> <<"Python", "sql">>
      [] s % 4 = 2 -> <<"python">>
      [] s % 4 = 3 -> <<"python", "sql">>
      [] OTHER     -> <<"java">>

StudentLocation(s) ==
    CASE s % 4 = 1 -> "Pune"
      [] s % 4 = 2 -> "delhi"
      [] s % 4 = 3 -> "Maharashtra"
      [] OTHER     -> ""

StudentEmail(s) ==
    CASE s % 4 = 1 -> "a@x.in"
      [] s % 4 = 2 -> "b@x.in"
      [] s % 4 = 3 -> "c@x.in"
      [] OTHER     -> "d@x.in"

\* scope entries that name no student: a blank entry and an unknown address
BlankEmail == "  "
UnknownEmail == "nobody@x.in"

\* ---------------------------------------------- the internship table rows
JobMinCgpa(j) ==
    CASE j % 3 = 1 -> 600
      [] j % 3 = 2 -> 0
      [] OTHER     -> 900

JobReqSkills(j) ==
    CASE j % 3 = 1 -> <<"python">>
      [] j % 3 = 2 -> <<"Python", "SQL">>
      [] OTHER     -> <<"java">>

JobLocation(j) ==
    CASE j % 3 = 1 -> "pune"
      [] j % 3 = 2 -> "Delhi"
      [] OTHER     -> "pune"

\* ------------------------------------------------------------ arithmetic
Min(a, b) == IF a <= b THEN a ELSE b
Max(a, b) == IF a >= b THEN a ELSE b

RECURSIVE SumOver(_, _)
\* sum of f[x] over the finite set D
SumOver(f, D) ==
    IF D = {} THEN 0
    ELSE LET x == CHOOSE y \in D : TRUE IN f[x] + SumOver(f, D \ {x})

\* round(x / unit) to the nearest integer, halves to even (Python's round)
RoundDiv(x, unit) ==
    LET q == x \div unit
        r == x % unit
    IN  IF 2 * r < unit THEN q
        ELSE IF 2 * r > unit THEN q + 1
        ELSE IF q % 2 = 0 THEN q ELSE q + 1

\* round(score, 4) of a score on the 1/One grid, on the 1/Round4One grid
Round4(x) == RoundDiv(x, One \div Round4One)

\* round(signal, 4) of a signal on the 1/SigScale grid
Round4Sig(x) == RoundDiv(x, SigScale \div Round4One)

\* str.lower() on the vocabulary of the tables
Lower(t) ==
    CASE t = "Python" -> "python"
      [] t = "SQL"    -> "sql"
      [] t = "Pune"   -> "pune"
      [] t = "Delhi"  -> "delhi"
      [] t = "Maharashtra" -> "maharashtra"
      [] OTHER        -> t

\* set(w.strip().lower() for w in text.replace(",", " ").split())
TokenSet(text) == { Lower(text[i]) : i \in DOMAIN text }

\* allocation.py norm(x, lo, hi)
norm(x, lo, hi) ==
    IF x = NULL THEN 0
    ELSE IF hi = lo THEN 0
    ELSE Max(0, Min(SigScale, ((x - lo) * SigScale) \div (hi - lo)))

\* jaccard with the ratio upside down: union over intersection
JaccardInverted(text_a, text_b) ==
    LET A == TokenSet(text_a)
        B == TokenSet(text_b)
    IN  IF A \cap B = {} THEN 0
        ELSE (Cardinality(A \cup B) * SigScale) \div Cardinality(A \cap B)

\* allocation.py jaccard(text_a, text_b)
jaccard(text_a, text_b) ==
    IF text_a = <<>> \/ text_b = <<>> THEN 0
    ELSE LET A == TokenSet(text_a)
             B == TokenSet(text_b)
         IN  IF A = {} \/ B = {} THEN 0
             ELSE (Cardinality(A \cap B) * SigScale) \div Cardinality(A \cup B)

\* ------------------------------------------------------ the plain scorer
\* the weights of a request, on the 1/WUnit grid
Weights(sk, lo, cg) == [skill |-> sk, location |-> lo, cgpa |-> cg]
DefaultWeights == Weights(13, 4, 3)

\* CgOk without the comparison with min_cgpa
CgOkIgnoringThreshold(s, j) == TRUE

\* the eligibility gate of every path:
\* cg_ok = (student["cgpa"] is None) or (float(student["cgpa"]) >= job["min_cgpa"])
CgOk(s, j) == StudentCgpa(s) = NULL \/ StudentCgpa(s) >= JobMinCgpa(j)

\* 1.0 if both locations are set and equal ignoring case, else 0.0
LocationExact(a, b) ==
    IF a # "" /\ b # "" /\ Lower(a) = Lower(b) THEN SigScale ELSE 0

\* float(student["cgpa"] if student["cgpa"] is not None else 0.0)
CgpaOrZero(s) == IF StudentCgpa(s) = NULL THEN 0 ELSE StudentCgpa(s)

\* norm(cgpa, 6.0, 9.5) if job["min_cgpa"] > 0 else 0.0
CgpaNorm(s, j) == IF JobMinCgpa(j) > 0 THEN norm(CgpaOrZero(s), 600, 950) ELSE 0

\* skill_weight * sem + location_weight * loc + cgpa_weight * cg   (1/One)
WeightedSum(w, sem, loc, cg) == w.skill * sem + w.location * loc + w.cgpa * cg

\* a cell of run_allocation's score_matrix: 0 where the gate left it unset
PlainScore(s, j, w) ==
    IF ~CgOk(s, j) THEN 0
    ELSE WeightedSum(w, jaccard(StudentSkills(s), JobReqSkills(j)),
                     LocationExact(StudentLocation(s), JobLocation(j)),
                     CgpaNorm(s, j))

\* ------------------------------------------------------ the GloVe scorer
\* max(0, cosine) of the averaged word vectors of two texts.  The vectors
\* come from the embedding file, which is data: equal token sets give 1.0,
\* overlapping ones 0.8, disjoint ones 0.3, and a text without words 0.
glove_skill_match_score(text_a, text_b) ==
    LET A == TokenSet(text_a)
        B == TokenSet(text_b)
    IN  IF A = {} \/ B = {} THEN 0
        ELSE IF A = B THEN SigScale
        ELSE IF A \cap B # {} THEN (8 * SigScale) \div 10
        ELSE (3 * SigScale) \div 10

\* the geographic boost: city_state_boost 0.3 for a configured (city, state)
\* pair, regional_boost 0.2 for a region name against one of its states
GeographicBoost(a, b) ==
    LET la == Lower(a)
        lb == Lower(b)
    IN  IF {la, lb} = {"pune", "maharashtra"} THEN (3 * SigScale) \div 10 ELSE 0

glove_location_match_score(a, b) ==
    IF a = "" \/ b = "" THEN 0
    ELSE IF Lower(a) = Lower(b) THEN SigScale
    ELSE Min(SigScale, glove_skill_match_score(<<a>>, <<b>>) + GeographicBoost(a, b))

\* performance_levels: the first level whose [lo, hi) range holds the cgpa
PerformanceBase(c) ==
    CASE 850 <= c /\ c < 1000 -> SigScale
      [] 750 <= c /\ c < 850  -> (8 * SigScale) \div 10
      [] 650 <= c /\ c < 750  -> (6 * SigScale) \div 10
      [] 600 <= c /\ c < 650  -> (4 * SigScale) \div 10
      [] 0 <= c /\ c < 600    -> (2 * SigScale) \div 10
      [] OTHER                -> 0

\* competitiveness_levels: the first level whose threshold min_cgpa reaches
CompetitivenessPct(m) ==
    IF m >= 800 THEN 110 ELSE IF m >= 700 THEN 105 ELSE IF m >= 600 THEN 100 ELSE 95

glove_cgpa_match_score(c, m) ==
    IF c = NULL THEN 0
    ELSE IF c < m THEN 0
    ELSE LET diff  == c - m
             base  == PerformanceBase(c)
             bonus == IF diff > 100 THEN Min((2 * SigScale) \div 10, (diff * SigScale) \div 1000)
                      ELSE IF diff > 50 THEN Min(SigScale \div 10, (diff * 15 * (SigScale \div 100)) \div 100)
                      ELSE 0
             lifted == IF diff > 50 THEN Min(SigScale, base + bonus) ELSE base
         IN  Min(SigScale, (lifted * CompetitivenessPct(m)) \div 100)

\* float(s["cgpa"] or 0.0), the cgpa the greedy paths hand to their scorer
CgpaFloat(s) == IF StudentCgpa(s) = NULL THEN 0 ELSE StudentCgpa(s)

\* nlp_matching_glove.py norm_fallback(x, min_cgpa)
norm_fallback(x, min_cgpa) ==
    IF x = NULL THEN 0
    ELSE IF min_cgpa <= 0 THEN 0
    ELSE Max(0, Min(SigScale, ((x - 600) * SigScale) \div (950 - 600)))

\* the three signals glove_comprehensive_similarity scores a pair with:
\* the embedding ones when the file loads, the lexical ones when it does not
GloveSignals(s, j, loaded) ==
    IF loaded
    THEN [skill    |-> glove_skill_match_score(StudentSkills(s), JobReqSkills(j)),
          location |-> glove_location_match_score(StudentLocation(s), JobLocation(j)),
          cgpa     |-> glove_cgpa_match_score(CgpaFloat(s), JobMinCgpa(j))]
    ELSE [skill    |-> jaccard(StudentSkills(s), JobReqSkills(j)),
          location |-> LocationExact(StudentLocation(s), JobLocation(j)),
          cgpa     |-> norm_fallback(CgpaFloat(s), JobMinCgpa(j))]

\* glove_comprehensive_similarity(..., skill_weight, location_weight, cgpa_weight)
\* glove_comprehensive_match_score puts the configured default in the place
\* of a weight that is None; the except branch multiplies the weights as
\* they came, and None * float raises TypeError
DefaultedWeights(w) ==
    [skill    |-> IF w.skill # NULL THEN w.skill ELSE DefaultWeights.skill,
     location |-> IF w.location # NULL THEN w.location ELSE DefaultWeights.location,
     cgpa     |-> IF w.cgpa # NULL THEN w.cgpa ELSE DefaultWeights.cgpa]

FallbackRaises(w, loaded) ==
    ~loaded /\ (w.skill = NULL \/ w.location = NULL \/ w.cgpa = NULL)

glove_comprehensive_similarity(s, j, w, loaded) ==
    LET g == GloveSignals(s, j, loaded)
    IN  WeightedSum(IF loaded THEN DefaultedWeights(w) ELSE w,
                    g.skill, g.location, g.cgpa)

\* --------------------------------------------------- the ensemble scorer
\* ensemble_allocation.py traditional_score
TraditionalSignals(s, j) ==
    [skill    |-> jaccard(StudentSkills(s), JobReqSkills(j)),
     location |-> LocationExact(StudentLocation(s), JobLocation(j)),
     cgpa     |-> IF JobMinCgpa(j) > 0 THEN norm(CgpaFloat(s), 600, 950) ELSE 0]

traditional_score(s, j, w) ==
    LET t == TraditionalSignals(s, j)
    IN  WeightedSum(w, t.skill, t.location, t.cgpa)

\* VotedSignal taking the loser of the vote
VotedSignalLoser(a, b) == Min(Round4Sig(a), Round4Sig(b)) * (SigScale \div Round4One)

\* the larger of two rounded components, back on the 1/SigScale grid
VotedSignal(a, b) == Max(Round4Sig(a), Round4Sig(b)) * (SigScale \div Round4One)

\* ensemble_score whose last branch is max_score, the weighted sum being
\* taken under the name weighted alone
ensemble_scoreElseMax(s, j, cfg, loaded) ==
    LET trad == traditional_score(s, j, cfg.traditional_weights)
        glov == glove_comprehensive_similarity(s, j, cfg.glove_weights, loaded)
        t    == TraditionalSignals(s, j)
        g    == GloveSignals(s, j, loaded)
    IN  IF cfg.ensemble_method = "weighted"
        THEN cfg.method_weights.traditional * trad + cfg.method_weights.glove * glov
        ELSE IF cfg.ensemble_method = "voting"
        THEN WUnit * WeightedSum(cfg.traditional_weights,
                                 VotedSignal(t.skill, g.skill),
                                 VotedSignal(t.location, g.location),
                                 VotedSignal(t.cgpa, g.cgpa))
        ELSE WUnit * Max(trad, glov)

\* ensemble_score: the final score on the 1/EOne grid
ensemble_score(s, j, cfg, loaded) ==
    LET trad == traditional_score(s, j, cfg.traditional_weights)
        glov == glove_comprehensive_similarity(s, j, cfg.glove_weights, loaded)
        t    == TraditionalSignals(s, j)
        g    == GloveSignals(s, j, loaded)
    IN  IF cfg.ensemble_method = "max_score" THEN WUnit * Max(trad, glov)
        ELSE IF cfg.ensemble_method = "voting"
        THEN WUnit * WeightedSum(cfg.traditional_weights,
                                 VotedSignal(t.skill, g.skill),
                                 VotedSignal(t.location, g.location),
                                 VotedSignal(t.cgpa, g.cgpa))
        ELSE cfg.method_weights.traditional * trad + cfg.method_weights.glove * glov

\* validate_match: the floors are read off the glove components
validate_match(s, j, cfg, loaded) ==
    LET g == GloveSignals(s, j, loaded)
    IN  \/ ~cfg.validation.enabled
        \/ /\ Round4Sig(g.skill) >= cfg.validation.min_skill_match
           /\ Round4Sig(g.location) >= cfg.validation.min_location_match

\* round(score, 4) of an ensemble score
Round4E(x) == RoundDiv(x, EOne \div Round4One)

\* EnsembleConfig.__init__
InitialEnsembleConfig ==
    [ensemble_method     |-> "weighted",
     method_weights      |-> [traditional |-> 8, glove |-> 12],
     min_score_threshold |-> 4,
     traditional_weights |-> DefaultWeights,
     glove_weights       |-> DefaultWeights,
     validation          |-> [enabled |-> TRUE, min_skill_match |-> 1500,
                              min_location_match |-> 0]]

\* ------------------------------------------------------------- the state
VARIABLES
    capacity,         \* internship.capacity of every active internship
    gloveFile,        \* whether the embedding file can be loaded
    alloc_run,        \* the committed alloc_run rows
    match_result,     \* the committed match_result rows
    next_run_id,      \* the alloc_run.run_id sequence
    ensemble_config,  \* ensemble_allocation.ensemble_config.config
    pc,               \* where each invocation stands
    req,              \* its arguments
    snap,             \* frozen_students and used_by_internship as it read them
    plan,             \* the run row and match rows it is about to write
    tx,               \* the rows its session has written and not committed
    rid,              \* the run id its INSERT INTO alloc_run gave back
    ret,              \* the run id it returned
    started,          \* invocations so far
    bench,            \* a score matrix and what the two solvers make of it
    resp,             \* what the router answered to each request
    glove_model_cache \* nlp_matching_glove._glove_model_cache and its callers

vars == <<capacity, gloveFile, alloc_run, match_result, next_run_id,
          ensemble_config, pc, req, snap, plan, tx, rid, ret, started, bench, resp,
          glove_model_cache>>

Range(q) == { q[i] : i \in DOMAIN q }

\* scope_emails is None or a list of entries
NoScope == [none |-> TRUE, emails |-> <<>>]
ScopeList(es) == [none |-> FALSE, emails |-> es]

\* a weight or a method the caller left out (None)
NoWeights == Weights(NULL, NULL, NULL)
NoMethod == ""

NoReq == [path |-> "", scope |-> NoScope, respect_existing |-> FALSE,
          weights |-> NoWeights, ensemble_method |-> NoMethod]
NoSnap == [frozen |-> {}, used |-> [j \in Jobs |-> 0]]
NoRun == [run_id |-> NULL, status |-> "", respect_existing |-> FALSE,
          scoped |-> FALSE, note |-> "", algorithm |-> "", frozen_count |-> NULL,
          weights |-> NoWeights, ensemble_method |-> NoMethod]
NoPlan == [exit |-> "", students |-> {}, remaining |-> [j \in Jobs |-> 0],
           run |-> NoRun, rows |-> <<>>]
NoTx == [run |-> NoRun, rows |-> {}]
\* what a router hands back: the status code, the run id of a 200 body, and
\* for a 500 the exception it was built from
NoResp == [code |-> 0, run_id |-> NULL, cause |-> ""]

\* the module global is None until a load succeeds; a loaded table is named
\* by the number of the load that built it
None == 0
NoCache == [cache |-> None, loads |-> 0, calls |-> [p \in Procs |-> 0],
            pc |-> [p \in Procs |-> "idle"], got |-> [p \in Procs |-> None],
            loop |-> 0]

NoBench == [pc |-> "", students |-> {}, remaining |-> [j \in Jobs |-> 0],
            score_matrix |-> <<>>, assigned |-> {}, greedy |-> {}]

\* ---------------------------------------------------------- the resolver
\* e.strip() leaves nothing of a blank entry
Strip(e) == IF e = BlankEmail THEN "" ELSE e

\* [e.strip() for e in (scope_emails or []) if e and e.strip()]
CleanScope(scope) ==
    LET given == IF scope.none THEN <<>> ELSE scope.emails
        kept  == SelectSeq(given, LAMBDA e : e # "" /\ Strip(e) # "")
    IN  [i \in DOMAIN kept |-> Strip(kept[i])]

\* the rows of SELECT mr.student_id, mr.internship_id FROM match_result mr
\* JOIN alloc_run ar ON ar.run_id = mr.run_id WHERE ar.status = 'SUCCESS'
SuccessRows(runs, matches) ==
    { m \in matches : \E r \in runs : r.run_id = m.run_id /\ r.status = "SUCCESS" }

\* frozen_students and used_by_internship built from those rows; the
\* ensemble path reads them only under respect_existing
FreezeExisting(path, respect_existing, runs, matches) ==
    LET rows == IF path = "ensemble" /\ ~respect_existing THEN {}
                ELSE SuccessRows(runs, matches)
    IN  [frozen |-> { m.student_id : m \in rows },
         used   |-> [j \in Jobs |-> Cardinality({ m \in rows : m.internship_id = j })]]

\* Remaining without the subtraction of the consumed slots
RemainingIgnoringUsed(cap, used) == [j \in Jobs |-> cap[j]]

\* rem = cap - used_by_internship.get(iid, 0); if rem <= 0: rem = 0
Remaining(cap, used) == [j \in Jobs |-> IF cap[j] - used[j] <= 0 THEN 0 ELSE cap[j] - used[j]]

\* EligibleStudents without the email IN :emails condition
EligibleIgnoringScope(scope, respect_existing, frozen) ==
    { s \in Students : (frozen # {} /\ respect_existing) => s \notin frozen }

\* EligibleStudents without the NOT IN :frozen condition
EligibleIgnoringFrozen(scope, respect_existing, frozen) ==
    { s \in Students :
        CleanScope(scope) # <<>> => StudentEmail(s) \in Range(CleanScope(scope)) }

\* SELECT ... FROM student s WHERE 1=1 [AND s.email IN :emails]
\*                                     [AND s.student_id NOT IN :frozen]
EligibleStudents(scope, respect_existing, frozen) ==
    LET emails == CleanScope(scope)
    IN  { s \in Students :
            /\ emails # <<>> => StudentEmail(s) \in Range(emails)
            /\ (frozen # {} /\ respect_existing) => s \notin frozen }

\* if ("emails" in params) and not params["emails"]: params holds "emails"
\* only when the cleaned list is not empty
EmptyScopeShortCircuit(scope) ==
    LET emails    == CleanScope(scope)
        hasEmails == emails # <<>>
    IN  hasEmails /\ emails = <<>>

\* ----------------------------------------------------------- the solvers
\* a match as the solvers hand it to the recorder
Match(s, j, score) == [student_id |-> s, internship_id |-> j, final_score |-> score]

\* a scored pair of the greedy paths' pairs list
Pair(s, j, score) == [student_id |-> s, internship_id |-> j, score |-> score]

\* the students of a set in ascending order
RECURSIVE Ascending(_)
Ascending(S) ==
    IF S = {} THEN <<>>
    ELSE LET x == CHOOSE y \in S : \A z \in S : y <= z
         IN  <<x>> \o Ascending(S \ {x})

\* HungarianAssignments without the minimum: any assignment that fills the
\* real columns
HungarianAssignmentsAnyFeasible(students, remaining, score) ==
    LET open == { j \in Jobs : remaining[j] > 0 }
        S    == Cardinality(students)
        J    == SumOver(remaining, open)
    IN  { f \in [students -> open \cup {0}] :
            /\ Cardinality({ s \in students : f[s] # 0 }) = Min(S, J)
            /\ \A j \in open :
                  Cardinality({ s \in students : f[s] = j }) <= remaining[j] }

\* linear_sum_assignment over the padded square matrix.  The slots of one
\* internship are columns with equal entries, so an assignment is given by
\* the internship each student's row is matched with: 0 is a padding column.
\* Rows matched with real columns number min(S, J); every optimum may come
\* back.
DummyJob == 0
HungarianAssignments(students, remaining, score) ==
    LET open   == { j \in Jobs : remaining[j] > 0 }
        S      == Cardinality(students)
        J      == SumOver(remaining, open)
        padded == Max(S, J)
        cells  == { score[s][j] : s \in students, j \in open }
                    \cup (IF S # J THEN {0} ELSE {})
        top    == CHOOSE x \in cells : \A y \in cells : x >= y
        max_score == IF top > 0 THEN top ELSE One
        real(f) == { s \in students : f[s] # DummyJob }
        feasible == { f \in [students -> open \cup {DummyJob}] :
                        /\ Cardinality(real(f)) = Min(S, J)
                        /\ \A j \in open :
                             Cardinality({ s \in students : f[s] = j }) <= remaining[j] }
        cost(f) == SumOver([s \in students |->
                              IF f[s] = DummyJob THEN max_score
                              ELSE max_score - score[s][f[s]]], students)
                   + (padded - S) * max_score
    IN  { f \in feasible : \A g \in feasible : cost(f) <= cost(g) }

\* HungarianMatches without "if score <= 0: continue"
HungarianMatchesKeepingZero(students, f, score) ==
    LET kept == { s \in students : f[s] # DummyJob }
        ord  == Ascending(kept)
    IN  [i \in DOMAIN ord |-> Match(ord[i], f[ord[i]], Round4(score[ord[i]][f[ord[i]]]))]

\* step 8 of run_allocation: padding cells and cells with score <= 0 give no match
HungarianMatches(students, f, score) ==
    LET kept == { s \in students : f[s] # DummyJob /\ score[s][f[s]] > 0 }
        ord  == Ascending(kept)
    IN  [i \in DOMAIN ord |-> Match(ord[i], f[ord[i]], Round4(score[ord[i]][f[ord[i]]]))]

\* the greedy sweep over the pairs sorted by descending score: a pair is
\* taken unless its student is assigned or its internship is full.  Equal
\* scores are swept in the order the store returned the rows, which the
\* queries do not fix: every order is followed.
RECURSIVE GreedySweepNoAssignedCheck(_, _, _)
\* GreedySweep without "if sid in assigned: continue"
GreedySweepNoAssignedCheck(pairs, assigned, remaining) ==
    LET live == { p \in pairs : remaining[p.internship_id] > 0 }
    IN  IF live = {} THEN {assigned}
        ELSE LET best == { p \in live : \A q \in live : p.score >= q.score }
             IN  UNION { GreedySweepNoAssignedCheck(pairs \ {p}, Append(assigned, p),
                             [remaining EXCEPT ![p.internship_id] = @ - 1]) : p \in best }

RECURSIVE GreedySweepNoCapacityCheck(_, _, _)
\* GreedySweep without "if job_info[jid]['remaining'] <= 0: continue"
GreedySweepNoCapacityCheck(pairs, assigned, remaining) ==
    LET taken == { assigned[i].student_id : i \in DOMAIN assigned }
        live  == { p \in pairs : p.student_id \notin taken }
    IN  IF live = {} THEN {assigned}
        ELSE LET best == { p \in live : \A q \in live : p.score >= q.score }
             IN  UNION { GreedySweepNoCapacityCheck(pairs \ {p}, Append(assigned, p),
                             [remaining EXCEPT ![p.internship_id] = @ - 1]) : p \in best }

RECURSIVE GreedySweepAscending(_, _, _)
\* GreedySweep over pairs.sort without reverse=True
GreedySweepAscending(pairs, assigned, remaining) ==
    LET taken == { assigned[i].student_id : i \in DOMAIN assigned }
        live  == { p \in pairs : p.student_id \notin taken /\ remaining[p.internship_id] > 0 }
    IN  IF live = {} THEN {assigned}
        ELSE LET best == { p \in live : \A q \in live : p.score <= q.score }
             IN  UNION { GreedySweepAscending(pairs \ {p}, Append(assigned, p),
                                     [remaining EXCEPT ![p.internship_id] = @ - 1]) : p \in best }

RECURSIVE GreedySweep(_, _, _)
GreedySweep(pairs, assigned, remaining) ==
    LET taken == { assigned[i].student_id : i \in DOMAIN assigned }
        live  == { p \in pairs : p.student_id \notin taken /\ remaining[p.internship_id] > 0 }
    IN  IF live = {} THEN {assigned}
        ELSE LET best == { p \in live : \A q \in live : p.score >= q.score }
             IN  UNION { GreedySweep(pairs \ {p}, Append(assigned, p),
                                     [remaining EXCEPT ![p.internship_id] = @ - 1]) : p \in best }

\* --------------------------------------------------------- the recorder
RunRow(re, scoped, note, algorithm, frozen_count, w, method) ==
    [run_id |-> NULL, status |-> "SUCCESS", respect_existing |-> re,
     scoped |-> scoped, note |-> note, algorithm |-> algorithm,
     frozen_count |-> frozen_count, weights |-> w, ensemble_method |-> method]

\* the algorithm name the early exits of a path record
ExitAlgorithm(path) ==
    CASE path = "hungarian" -> "hungarian"
      [] path = "ensemble"  -> "ensemble"
      [] OTHER              -> "nlp_glove"

\* the run row of an early exit: INSERT INTO alloc_run ... 'note', ...
ExitPlan(r, students, remaining, note) ==
    [exit |-> note, students |-> students, remaining |-> remaining,
     run |-> RunRow(r.respect_existing,
                    IF note = "empty scope" THEN TRUE ELSE CleanScope(r.scope) # <<>>,
                    note, ExitAlgorithm(r.path), NULL, NoWeights, NoMethod),
     rows |-> <<>>]

\* steps 7-9 of run_allocation
HungarianPlans(r, sn, students, remaining) ==
    LET score == [s \in students |-> [j \in Jobs |-> PlainScore(s, j, r.weights)]]
    IN  { [exit |-> "", students |-> students, remaining |-> remaining,
           run |-> RunRow(r.respect_existing, CleanScope(r.scope) # <<>>, "",
                          "hungarian", Cardinality(sn.frozen), r.weights, NoMethod),
           rows |-> HungarianMatches(students, f, score)]
          : f \in HungarianAssignments(students, remaining, score) }

\* the pairs list of run_ensemble_allocation (step 7): gate, threshold, floors
EnsemblePairs(students, open, cfg, loaded) ==
    { Pair(sj[1], sj[2], ensemble_score(sj[1], sj[2], cfg, loaded)) :
        sj \in { x \in students \X open :
                   /\ CgOk(x[1], x[2])
                   /\ ensemble_score(x[1], x[2], cfg, loaded) >= cfg.min_score_threshold * One
                   /\ validate_match(x[1], x[2], cfg, loaded) } }

\* the pairs list of run_nlp_allocation (step 7): gate, then score >= 0.2
NlpPairs(students, open, w, loaded) ==
    { Pair(sj[1], sj[2], glove_comprehensive_similarity(sj[1], sj[2], w, loaded)) :
        sj \in { x \in students \X open :
                   /\ CgOk(x[1], x[2])
                   /\ 5 * glove_comprehensive_similarity(x[1], x[2], w, loaded) >= One } }

\* steps 8-9 of the greedy paths: sweep, then one row per assigned student
GreedyRows(assigned, ensemble) ==
    [i \in DOMAIN assigned |->
        Match(assigned[i].student_id, assigned[i].internship_id,
              IF ensemble THEN Round4E(assigned[i].score) ELSE Round4(assigned[i].score))]

\* EnsemblePlans whose run row is built from the caller's arguments, not from
\* the configuration the pairs were scored with
EnsemblePlansRecordingRequest(r, sn, students, remaining, cfg, loaded) ==
    LET open == { j \in Jobs : remaining[j] > 0 }
    IN  { [exit |-> "", students |-> students, remaining |-> remaining,
           run |-> RunRow(r.respect_existing, CleanScope(r.scope) # <<>>, "",
                          "ensemble_greedy", Cardinality(sn.frozen),
                          r.weights, r.ensemble_method),
           rows |-> GreedyRows(a, TRUE)]
          : a \in GreedySweep(EnsemblePairs(students, open, cfg, loaded), <<>>, remaining) }

EnsemblePlans(r, sn, students, remaining, cfg, loaded) ==
    LET open == { j \in Jobs : remaining[j] > 0 }
    IN  { [exit |-> "", students |-> students, remaining |-> remaining,
           run |-> RunRow(r.respect_existing, CleanScope(r.scope) # <<>>, "",
                          "ensemble_greedy", Cardinality(sn.frozen),
                          cfg.traditional_weights, cfg.ensemble_method),
           rows |-> GreedyRows(a, TRUE)]
          : a \in GreedySweep(EnsemblePairs(students, open, cfg, loaded), <<>>, remaining) }

NlpPlans(r, sn, students, remaining, loaded) ==
    LET open == { j \in Jobs : remaining[j] > 0 }
    IN  { [exit |-> "", students |-> students, remaining |-> remaining,
           run |-> RunRow(r.respect_existing, CleanScope(r.scope) # <<>>, "",
                          "nlp_glove", Cardinality(sn.frozen), r.weights, NoMethod),
           rows |-> GreedyRows(a, FALSE)]
          : a \in GreedySweep(NlpPairs(students, open, r.weights, loaded), <<>>, remaining) }

\* what an invocation that read sn goes on to write: steps 3-9 of
\* run_allocation, run_ensemble_allocation and run_nlp_allocation
Plans(r, sn, cap, cfg, loaded) ==
    LET remaining == Remaining(cap, sn.used)
        students  == EligibleStudents(r.scope, r.respect_existing, sn.frozen)
        open      == { j \in Jobs : remaining[j] > 0 }
    IN  IF EmptyScopeShortCircuit(r.scope)
        THEN {ExitPlan(r, {}, remaining, "empty scope")}
        ELSE IF students = {}
        THEN {ExitPlan(r, students, remaining, "no eligible students in scope")}
        ELSE IF open = {}
        THEN {ExitPlan(r, students, remaining, "no open capacity")}
        ELSE IF r.path = "hungarian" THEN HungarianPlans(r, sn, students, remaining)
        ELSE IF r.path = "ensemble"
        THEN EnsemblePlans(r, sn, students, remaining, cfg, loaded)
        ELSE NlpPlans(r, sn, students, remaining, loaded)

\* lines 278-293 of run_ensemble_allocation: the weights and the method the
\* caller gave are written into the global configuration
UpdateEnsembleConfig(cfg, r) ==
    LET w == [skill    |-> IF r.weights.skill # NULL THEN r.weights.skill
                           ELSE cfg.traditional_weights.skill,
              location |-> IF r.weights.location # NULL THEN r.weights.location
                           ELSE cfg.traditional_weights.location,
              cgpa     |-> IF r.weights.cgpa # NULL THEN r.weights.cgpa
                           ELSE cfg.traditional_weights.cgpa]
    IN  [cfg EXCEPT !.traditional_weights = w,
                    !.glove_weights = w,
                    !.ensemble_method = IF r.ensemble_method # NoMethod
                                        THEN r.ensemble_method ELSE @]

\* ------------------------------------------------------------ the start
\* capacities the internship table may hold: all 1, or 1, 2, 0 by turns
CapacityProfiles == { [j \in Jobs |-> 1], [j \in Jobs |-> j % 3] }

Init ==
    /\ capacity \in CapacityProfiles
    /\ gloveFile \in BOOLEAN
    /\ alloc_run = {}
    /\ match_result = {}
    /\ next_run_id = 1
    /\ ensemble_config = InitialEnsembleConfig
    /\ pc = [p \in Procs |-> "idle"]
    /\ req = [p \in Procs |-> NoReq]
    /\ snap = [p \in Procs |-> NoSnap]
    /\ plan = [p \in Procs |-> NoPlan]
    /\ tx = [p \in Procs |-> NoTx]
    /\ rid = [p \in Procs |-> NULL]
    /\ ret = [p \in Procs |-> NULL]
    /\ started = 0
    /\ bench = NoBench
    /\ resp = [p \in Procs |-> NoResp]
    /\ glove_model_cache = NoCache

Resting(p) == pc[p] \in {"idle", "done", "failed"}

\* ---------------------------------------------------------- the requests
Paths == {"hungarian", "ensemble", "nlp"}

Request(path, scope, re, w, method) ==
    [path |-> path, scope |-> scope, respect_existing |-> re,
     weights |-> w, ensemble_method |-> method]

\* the weights a request carries when the caller names none: the routers'
\* defaults on the plain and the NLP path, None on the ensemble path
RouterWeights(path) == IF path = "ensemble" THEN NoWeights ELSE DefaultWeights

\* the scopes of the run histories: every student, or the third one alone
HistoryScopes == { NoScope, ScopeList(<<StudentEmail(3)>>) }

\* requests that leave the weights and the method at their defaults
HistoryRequests ==
    { Request(path, scope, re, RouterWeights(path), NoMethod) :
        path \in Paths, scope \in HistoryScopes, re \in BOOLEAN }

\* ----------------------------------------------------------- the actions
\* a caller posts a request; run_ensemble_allocation first writes the
\* caller's weights and method into the global configuration
Start(p, r) ==
    /\ Resting(p)
    /\ started < MaxRuns
    /\ started' = started + 1
    /\ pc' = [pc EXCEPT ![p] = "read"]
    /\ req' = [req EXCEPT ![p] = r]
    /\ snap' = [snap EXCEPT ![p] = NoSnap]
    /\ plan' = [plan EXCEPT ![p] = NoPlan]
    /\ tx' = [tx EXCEPT ![p] = NoTx]
    /\ rid' = [rid EXCEPT ![p] = NULL]
    /\ ret' = [ret EXCEPT ![p] = NULL]
    /\ resp' = [resp EXCEPT ![p] = NoResp]
    /\ ensemble_config' = IF r.path = "ensemble"
                          THEN UpdateEnsembleConfig(ensemble_config, r)
                          ELSE ensemble_config
    /\ UNCHANGED <<glove_model_cache, bench, capacity, gloveFile, alloc_run, match_result, next_run_id>>

\* step 2: the committed match rows of SUCCESS runs are read
ReadRows(p) ==
    /\ pc[p] = "read"
    /\ snap' = [snap EXCEPT ![p] =
                  FreezeExisting(req[p].path, req[p].respect_existing,
                                 alloc_run, match_result)]
    /\ pc' = [pc EXCEPT ![p] = "score"]
    /\ UNCHANGED <<glove_model_cache, resp, bench, capacity, gloveFile, alloc_run, match_result, next_run_id,
                   ensemble_config, req, plan, tx, rid, ret, started>>

\* steps 3-8: capacity, eligible students, scores and the solver
\* the scoring loop of run_nlp_allocation reaches a call of the scorer that
\* raises: a student in scope, an open internship, the cgpa gate passed
ScorerRaises(r, sn, cap, loaded) ==
    LET remaining == Remaining(cap, sn.used)
        students  == EligibleStudents(r.scope, r.respect_existing, sn.frozen)
        open      == { j \in Jobs : remaining[j] > 0 }
    IN  /\ r.path = "nlp"
        /\ FallbackRaises(r.weights, loaded)
        /\ \E s \in students, j \in open : CgOk(s, j)

Score(p) ==
    /\ pc[p] = "score"
    /\ ~ScorerRaises(req[p], snap[p], capacity, gloveFile)
    /\ \E pl \in Plans(req[p], snap[p], capacity, ensemble_config, gloveFile) :
          plan' = [plan EXCEPT ![p] = pl]
    /\ pc' = [pc EXCEPT ![p] = "insert_run"]
    /\ UNCHANGED <<glove_model_cache, resp, bench, capacity, gloveFile, alloc_run, match_result, next_run_id,
                   ensemble_config, req, snap, tx, rid, ret, started>>

\* INSERT INTO alloc_run ... : the row is written in the session
InsertRun(p) ==
    /\ pc[p] = "insert_run"
    /\ tx' = [tx EXCEPT ![p].run = [plan[p].run EXCEPT !.run_id = next_run_id]]
    /\ rid' = [rid EXCEPT ![p] = next_run_id]
    /\ next_run_id' = next_run_id + 1
    /\ pc' = [pc EXCEPT ![p] = IF plan[p].rows = <<>> THEN "commit" ELSE "insert_match"]
    /\ UNCHANGED <<glove_model_cache, resp, bench, capacity, gloveFile, alloc_run, match_result, ensemble_config,
                   req, snap, plan, ret, started>>

\* one INSERT INTO match_result of the loop over rows
InsertMatch(p) ==
    /\ pc[p] = "insert_match"
    /\ LET k   == Cardinality(tx[p].rows) + 1
           row == [run_id |-> tx[p].run.run_id, seq |-> k,
                   student_id |-> plan[p].rows[k].student_id,
                   internship_id |-> plan[p].rows[k].internship_id,
                   final_score |-> plan[p].rows[k].final_score]
       IN  /\ tx' = [tx EXCEPT ![p].rows = @ \cup {row}]
           /\ pc' = [pc EXCEPT ![p] = IF k = Len(plan[p].rows) THEN "commit"
                                      ELSE "insert_match"]
    /\ UNCHANGED <<glove_model_cache, resp, bench, capacity, gloveFile, alloc_run, match_result, next_run_id,
                   ensemble_config, req, snap, plan, rid, ret, started>>

\* CommittedRuns with the run row's status changed on the way
CommittedRunsAsFailed(runs, t) == runs \cup {[t.run EXCEPT !.status = "FAILED"]}

RouterReturn(run_id) == [code |-> 200, run_id |-> run_id, cause |-> ""]

\* str(e) of the exception a statement of the run raises: the driver's
\* message followed by the text of the statement, in which the INSERT of an
\* early exit spells its note
StatementError(p) ==
    [error |-> "DBAPIError",
     sql |-> IF pc[p] = "insert_run" /\ plan[p].exit # ""
             THEN "INSERT INTO alloc_run ... " \o plan[p].exit
             ELSE IF pc[p] = "read" THEN "SELECT ..."
             ELSE IF pc[p] = "commit" THEN "COMMIT" ELSE "INSERT INTO ..."]

\* "no eligible students" in error_msg.lower(), "no open capacity" in ...
MentionsNoEligible(e) == e.sql = "INSERT INTO alloc_run ... no eligible students in scope"
MentionsNoCapacity(e) == e.sql = "INSERT INTO alloc_run ... no open capacity"

\* the except branch of the three routers: trigger_allocation answers 200
\* with run_id 0 when the text names one of the two early exits; otherwise,
\* and always in the two other routers, HTTPException(500, detail = str(e))
RouterExcept(path, e) ==
    IF path = "hungarian" /\ (MentionsNoEligible(e) \/ MentionsNoCapacity(e))
    THEN [code |-> 200, run_id |-> 0, cause |-> ""]
    ELSE [code |-> 500, run_id |-> NULL, cause |-> e.error]

\* the rows a commit of the session tx[p] makes visible
CommittedRuns(runs, t) == runs \cup {t.run}
\* CommittedMatches writing a student's row over the one an earlier run left
CommittedMatchesReplacing(matches, t) ==
    { m \in matches : \A n \in t.rows : n.student_id # m.student_id } \cup t.rows

CommittedMatches(matches, t) == matches \cup t.rows

\* await db.commit(); return int(rid)
Commit(p) ==
    /\ pc[p] = "commit"
    /\ alloc_run' = CommittedRuns(alloc_run, tx[p])
    /\ match_result' = CommittedMatches(match_result, tx[p])
    /\ ret' = [ret EXCEPT ![p] = rid[p]]
    /\ resp' = [resp EXCEPT ![p] = RouterReturn(rid[p])]
    /\ tx' = [tx EXCEPT ![p] = NoTx]
    /\ pc' = [pc EXCEPT ![p] = "done"]
    /\ UNCHANGED <<glove_model_cache, bench, capacity, gloveFile, next_run_id, ensemble_config,
                   req, snap, plan, rid, started>>

\* Fail with a session in autocommit mode: the rows written so far stay
FailKeepingWrites(p) ==
    /\ pc[p] \in {"read", "insert_run", "insert_match", "commit"}
    /\ alloc_run' = IF tx[p].run = NoRun THEN alloc_run ELSE alloc_run \cup {tx[p].run}
    /\ match_result' = match_result \cup tx[p].rows
    /\ tx' = [tx EXCEPT ![p] = NoTx]
    /\ pc' = [pc EXCEPT ![p] = "failed"]
    /\ resp' = [resp EXCEPT ![p] = RouterExcept(req[p].path, StatementError(p))]
    /\ UNCHANGED <<glove_model_cache, bench, capacity, gloveFile, next_run_id,
                   ensemble_config, req, snap, plan, rid, ret, started>>

\* a statement of the run raises: the exception leaves run_allocation, the
\* session of get_db is closed and its uncommitted rows are rolled back
Fail(p) ==
    /\ pc[p] \in {"read", "insert_run", "insert_match", "commit"}
    /\ tx' = [tx EXCEPT ![p] = NoTx]
    /\ pc' = [pc EXCEPT ![p] = "failed"]
    /\ resp' = [resp EXCEPT ![p] = RouterExcept(req[p].path, StatementError(p))]
    /\ UNCHANGED <<glove_model_cache, bench, capacity, gloveFile, alloc_run, match_result, next_run_id,
                   ensemble_config, req, snap, plan, rid, ret, started>>

\* the INSERT of an early exit is written in another dialect than the one
\* of the engine db.py creates (JSON_OBJECT(k, v, ...) and cursor.lastrowid
\* against postgresql+asyncpg, where the other INSERT says RETURNING run_id):
\* the store either takes it and reports the new id, which is InsertRun, or
\* raises, and the exception leaves the function before any commit
ExitInsertRaises(p) ==
    /\ pc[p] = "insert_run"
    /\ plan[p].exit # ""
    /\ tx' = [tx EXCEPT ![p] = NoTx]
    /\ pc' = [pc EXCEPT ![p] = "failed"]
    /\ resp' = [resp EXCEPT ![p] = RouterExcept(req[p].path, StatementError(p))]
    /\ UNCHANGED <<glove_model_cache, bench, capacity, gloveFile, alloc_run, match_result, next_run_id,
                   ensemble_config, req, snap, plan, rid, ret, started>>

\* the exception of the scorer leaves run_nlp_allocation before any INSERT
ScoreRaises(p) ==
    /\ pc[p] = "score"
    /\ ScorerRaises(req[p], snap[p], capacity, gloveFile)
    /\ pc' = [pc EXCEPT ![p] = "failed"]
    /\ resp' = [resp EXCEPT ![p] =
                  RouterExcept(req[p].path, [error |-> "TypeError", sql |-> ""])]
    /\ UNCHANGED <<glove_model_cache, bench, capacity, gloveFile, alloc_run,
                   match_result, next_run_id, ensemble_config, req, snap, plan, tx,
                   rid, ret, started>>

Step(p) ==
    \/ ReadRows(p)
    \/ Score(p)
    \/ InsertRun(p)
    \/ ExitInsertRaises(p)
    \/ InsertMatch(p)
    \/ Commit(p)

\* ---------------------------------------------------- the specifications
\* runs one after the other, as one caller posting request after request
Next ==
    \/ \E r \in HistoryRequests : Start(1, r)
    \/ Step(1)

Spec == Init /\ [][Next]_vars

\* two callers at once: every interleaving of the steps of incremental runs
ConcRequests ==
    { Request(path, NoScope, TRUE, RouterWeights(path), NoMethod) : path \in Paths }

NextConc ==
    \E p \in Procs :
        \/ \E r \in ConcRequests : Start(p, r)
        \/ Step(p)

SpecConc == Init /\ [][NextConc]_vars

\* runs whose scope list is empty, holds a blank entry only, or names nobody
EdgeScopes ==
    { ScopeList(<<>>), ScopeList(<<BlankEmail>>), ScopeList(<<UnknownEmail>>) }

ScopeRequests ==
    { Request(path, scope, re, RouterWeights(path), NoMethod) :
        path \in Paths, scope \in EdgeScopes, re \in BOOLEAN }

NextScope ==
    \/ \E r \in ScopeRequests : Start(1, r)
    \/ Step(1)

SpecScope == Init /\ [][NextScope]_vars

\* runs during which a statement may raise at any point
TxRequests ==
    { Request(path, NoScope, re, RouterWeights(path), NoMethod) :
        path \in Paths, re \in BOOLEAN }

NextTx ==
    \/ \E r \in TxRequests : Start(1, r)
    \/ Step(1)
    \/ Fail(1)

SpecTx == Init /\ [][NextTx]_vars

\* runs with weights of the caller's choosing: AllocationConfig takes any
\* float.  1.0 each on every path; the skill signal alone, and a negative
\* location weight beside it.
WeightRequests ==
    { Request(path, NoScope, FALSE, Weights(WUnit, WUnit, WUnit), NoMethod) :
        path \in Paths }
    \cup { Request(path, NoScope, FALSE, Weights(WUnit, 0, 0), NoMethod) :
             path \in {"hungarian", "ensemble"} }
    \cup { Request("hungarian", NoScope, FALSE, Weights(WUnit, 0 - 4, 0), NoMethod) }

NextWeights ==
    \/ \E r \in WeightRequests : Start(1, r)
    \/ Step(1)

SpecWeights == Init /\ [][NextWeights]_vars

\* runs on the plain and the ensemble path with small weights: 0.1, 0.05, 0.05
FloorRequests ==
    { Request(path, NoScope, re, Weights(2, 1, 1), NoMethod) :
        path \in {"hungarian", "ensemble"}, re \in BOOLEAN }

NextFloors ==
    \/ \E r \in FloorRequests : Start(1, r)
    \/ Step(1)

SpecFloors == Init /\ [][NextFloors]_vars

\* the two solvers on one score matrix.  The matrix is over all but the last
\* student and every internship; a cell is -2.0, 0 or 1.0 (a weight may be
\* negative, and a cell the gate left unset is 0).
BenchStudents == { s \in Students : s < NumStudents }
CellValues == { 0 - 2 * One, 0, One }

InitBench ==
    /\ capacity = [j \in Jobs |-> 1]
    /\ gloveFile = FALSE
    /\ alloc_run = {}
    /\ match_result = {}
    /\ next_run_id = 1
    /\ ensemble_config = InitialEnsembleConfig
    /\ pc = [p \in Procs |-> "idle"]
    /\ req = [p \in Procs |-> NoReq]
    /\ snap = [p \in Procs |-> NoSnap]
    /\ plan = [p \in Procs |-> NoPlan]
    /\ tx = [p \in Procs |-> NoTx]
    /\ rid = [p \in Procs |-> NULL]
    /\ ret = [p \in Procs |-> NULL]
    /\ started = 0
    /\ bench \in [pc : {"matrix"}, students : {BenchStudents},
                   remaining : CapacityProfiles,
                   score_matrix : [BenchStudents -> [Jobs -> CellValues]],
                   assigned : {{}}, greedy : {{}}]
    /\ resp = [p \in Procs |-> NoResp]
    /\ glove_model_cache = NoCache

\* steps 7-8 of run_allocation on the matrix: the cells the solver assigned
\* and step 8 kept
SolveHungarian ==
    /\ bench.pc = "matrix"
    /\ \E f \in HungarianAssignments(bench.students, bench.remaining, bench.score_matrix) :
          LET rows == HungarianMatches(bench.students, f, bench.score_matrix)
          IN  bench' = [bench EXCEPT
                          !.pc = "solved",
                          !.assigned = { <<rows[i].student_id, rows[i].internship_id>> :
                                            i \in DOMAIN rows }]
    /\ UNCHANGED <<glove_model_cache, resp, capacity, gloveFile, alloc_run, match_result, next_run_id,
                   ensemble_config, pc, req, snap, plan, tx, rid, ret, started>>

\* the greedy paths' steps on the same matrix: the cells at or above 0.2,
\* swept by descending score
SolveGreedy ==
    /\ bench.pc = "solved"
    /\ LET open  == { j \in Jobs : bench.remaining[j] > 0 }
           pairs == { Pair(x[1], x[2], bench.score_matrix[x[1]][x[2]]) :
                        x \in { y \in bench.students \X open :
                                  5 * bench.score_matrix[y[1]][y[2]] >= One } }
       IN  \E a \in GreedySweep(pairs, <<>>, bench.remaining) :
              bench' = [bench EXCEPT
                          !.pc = "swept",
                          !.greedy = { <<a[i].student_id, a[i].internship_id>> :
                                          i \in DOMAIN a }]
    /\ UNCHANGED <<glove_model_cache, resp, capacity, gloveFile, alloc_run, match_result, next_run_id,
                   ensemble_config, pc, req, snap, plan, tx, rid, ret, started>>

NextBench == SolveHungarian \/ SolveGreedy

SpecBench == InitBench /\ [][NextBench]_vars

\* matrices on which the students compete for the seats of one internship,
\* the only one open: scores 0, 0.05, 0.1, 0.6 and 0.8
DuelValues == { 0, One \div 20, One \div 10, 3 * (One \div 5), 4 * (One \div 5) }

InitDuel ==
    /\ capacity = [j \in Jobs |-> 1]
    /\ gloveFile = FALSE
    /\ alloc_run = {}
    /\ match_result = {}
    /\ next_run_id = 1
    /\ ensemble_config = InitialEnsembleConfig
    /\ pc = [p \in Procs |-> "idle"]
    /\ req = [p \in Procs |-> NoReq]
    /\ snap = [p \in Procs |-> NoSnap]
    /\ plan = [p \in Procs |-> NoPlan]
    /\ tx = [p \in Procs |-> NoTx]
    /\ rid = [p \in Procs |-> NULL]
    /\ ret = [p \in Procs |-> NULL]
    /\ started = 0
    /\ resp = [p \in Procs |-> NoResp]
    /\ glove_model_cache = NoCache
    /\ \E k \in Jobs, seats \in {1, 2}, v \in [BenchStudents -> DuelValues] :
          bench = [pc |-> "matrix", students |-> BenchStudents,
                   remaining |-> [j \in Jobs |-> IF j = k THEN seats ELSE 0],
                   score_matrix |-> [s \in BenchStudents |->
                                       [j \in Jobs |-> IF j = k THEN v[s] ELSE 0]],
                   assigned |-> {}, greedy |-> {}]

SpecDuel == InitDuel /\ [][NextBench]_vars

\* the one open internship of a matrix, its students with a positive score,
\* and the best of them
DuelSeat == CHOOSE j \in Jobs : bench.remaining[j] > 0
DuelRivals == { s \in bench.students : bench.score_matrix[s][DuelSeat] > 0 }
DuelBest == CHOOSE s \in DuelRivals :
                \A t \in DuelRivals : bench.score_matrix[s][DuelSeat] >= bench.score_matrix[t][DuelSeat]
DuelCase ==
    /\ Cardinality({ j \in Jobs : bench.remaining[j] > 0 }) = 1
    /\ bench.remaining[DuelSeat] = 1
    /\ Cardinality(DuelRivals) >= 2
    /\ \A s, t \in DuelRivals :
          s # t => bench.score_matrix[s][DuelSeat] # bench.score_matrix[t][DuelSeat]

\* matrices whose cells are 0.1, 0.6 or 0.8, so that accepted pairs differ in
\* score and some pairs fall below the minimum score of the greedy paths
SweepValues == { One \div 10, 3 * (One \div 5), 4 * (One \div 5) }

InitSweep ==
    /\ capacity = [j \in Jobs |-> 1]
    /\ gloveFile = FALSE
    /\ alloc_run = {}
    /\ match_result = {}
    /\ next_run_id = 1
    /\ ensemble_config = InitialEnsembleConfig
    /\ pc = [p \in Procs |-> "idle"]
    /\ req = [p \in Procs |-> NoReq]
    /\ snap = [p \in Procs |-> NoSnap]
    /\ plan = [p \in Procs |-> NoPlan]
    /\ tx = [p \in Procs |-> NoTx]
    /\ rid = [p \in Procs |-> NULL]
    /\ ret = [p \in Procs |-> NULL]
    /\ started = 0
    /\ resp = [p \in Procs |-> NoResp]
    /\ glove_model_cache = NoCache
    /\ bench \in [pc : {"matrix"}, students : {BenchStudents},
                   remaining : CapacityProfiles,
                   score_matrix : [BenchStudents -> [Jobs -> SweepValues]],
                   assigned : {{}}, greedy : {{}}]

SpecSweep == InitSweep /\ [][NextBench]_vars

\* the cells of the matrix the greedy paths accept as pairs: an open
\* internship and a score of at least 0.2
SweepAccepted ==
    { x \in bench.students \X { j \in Jobs : bench.remaining[j] > 0 } :
         5 * bench.score_matrix[x[1]][x[2]] >= One }

\* the students the sweep gave an internship
SweepHolders(j) == { s \in bench.students : <<s, j>> \in bench.greedy }

\* the total score of a set of cells of the matrix
BenchTotal(cells) ==
    SumOver([c \in cells |-> bench.score_matrix[c[1]][c[2]]], cells)

\* incremental runs on every path and from-scratch runs on the plain path,
\* over everyone or over the scope of one student
ScopedRequests ==
    { Request(path, scope, TRUE, RouterWeights(path), NoMethod) :
        path \in Paths, scope \in HistoryScopes }
    \cup { Request("hungarian", scope, FALSE, RouterWeights("hungarian"), NoMethod) :
             scope \in HistoryScopes }

NextScoped ==
    \/ \E r \in ScopedRequests : Start(1, r)
    \/ Step(1)

SpecScoped == Init /\ [][NextScoped]_vars

\* NLP runs whose body carries null for the weights, next to runs with the
\* defaults of NLPAllocationRequest, the embedding file there or not
FallbackRequests ==
    { Request("nlp", NoScope, re, w, NoMethod) :
        re \in BOOLEAN, w \in {NoWeights, DefaultWeights} }

NextFallback ==
    \/ \E r \in FallbackRequests : Start(1, r)
    \/ Step(1)
    \/ ScoreRaises(1)

SpecFallback == Init /\ [][NextFallback]_vars

\* ensemble runs with the voting method, with the stored weights or with all
\* the weight on the skills
VotingRequests ==
    { Request("ensemble", NoScope, TRUE, NoWeights, "voting"),
      Request("ensemble", NoScope, FALSE, Weights(WUnit, 0, 0), "voting") }

NextVoting ==
    \/ \E r \in VotingRequests : Start(1, r)
    \/ Step(1)

SpecVoting == Init /\ [][NextVoting]_vars

\* ensemble runs of one process, some naming weights or a method and some
\* leaving them out
ConfigRequests ==
    { Request("ensemble", NoScope, FALSE, Weights(WUnit, 0, 0), NoMethod),
      Request("ensemble", NoScope, FALSE, NoWeights, "max_score"),
      Request("ensemble", NoScope, FALSE, NoWeights, NoMethod),
      Request("ensemble", NoScope, TRUE, NoWeights, NoMethod) }

NextConfig ==
    \/ \E r \in ConfigRequests : Start(1, r)
    \/ Step(1)

SpecConfig == Init /\ [][NextConfig]_vars

\* ------------------------------------------- the cached embedding table
\* get_cached_glove_model is a plain function without an await, and all its
\* callers are coroutines of the one event loop: from its first line to its
\* return the loop runs nothing else
LoopAfterCheckYields(p) == 0
LoopAfterCheck(p) == p

InitCache ==
    /\ capacity = [j \in Jobs |-> 1]
    /\ gloveFile \in BOOLEAN
    /\ alloc_run = {}
    /\ match_result = {}
    /\ next_run_id = 1
    /\ ensemble_config = InitialEnsembleConfig
    /\ pc = [p \in Procs |-> "idle"]
    /\ req = [p \in Procs |-> NoReq]
    /\ snap = [p \in Procs |-> NoSnap]
    /\ plan = [p \in Procs |-> NoPlan]
    /\ tx = [p \in Procs |-> NoTx]
    /\ rid = [p \in Procs |-> NULL]
    /\ ret = [p \in Procs |-> NULL]
    /\ started = 0
    /\ bench = NoBench
    /\ resp = [p \in Procs |-> NoResp]
    /\ glove_model_cache = NoCache

\* if _glove_model_cache is None: ... else return _glove_model_cache
CallCheck(p) ==
    LET g == glove_model_cache
    IN  /\ g.pc[p] \in {"idle", "returned", "raised"}
        /\ g.loop = 0
        /\ g.calls[p] < MaxRuns
        /\ glove_model_cache' =
             IF g.cache # None
             THEN [g EXCEPT !.calls[p] = @ + 1, !.pc[p] = "returned", !.got[p] = g.cache]
             ELSE [g EXCEPT !.calls[p] = @ + 1, !.pc[p] = "loading", !.got[p] = None,
                            !.loop = LoopAfterCheck(p)]
        /\ UNCHANGED <<resp, bench, capacity, gloveFile, alloc_run, match_result,
                       next_run_id, ensemble_config, pc, req, snap, plan, tx, rid,
                       ret, started>>

\* the first existing path is loaded and kept, or FileNotFoundError is raised
CallLoad(p) ==
    LET g == glove_model_cache
    IN  /\ g.pc[p] = "loading"
        /\ g.loop \in {0, p}
        /\ glove_model_cache' =
             IF gloveFile
             THEN [g EXCEPT !.loads = @ + 1, !.cache = g.loads + 1,
                            !.pc[p] = "returned", !.got[p] = g.loads + 1, !.loop = 0]
             ELSE [g EXCEPT !.pc[p] = "raised", !.loop = 0]
        /\ UNCHANGED <<resp, bench, capacity, gloveFile, alloc_run, match_result,
                       next_run_id, ensemble_config, pc, req, snap, plan, tx, rid,
                       ret, started>>

\* the embedding file is put in place or taken away between calls
FileChange ==
    /\ glove_model_cache.loop = 0
    /\ gloveFile' = ~gloveFile
    /\ UNCHANGED <<glove_model_cache, resp, bench, capacity, alloc_run, match_result,
                   next_run_id, ensemble_config, pc, req, snap, plan, tx, rid,
                   ret, started>>

NextCache ==
    \/ \E p \in Procs : CallCheck(p)
    \/ \E p \in Procs : CallLoad(p)
    \/ FileChange

SpecCache == InitCache /\ [][NextCache]_vars

\* incremental runs that meet no data-layer error, each run to its end: the
\* event loop resumes the coroutine whenever the store has answered
StepNoError(p) ==
    \/ ReadRows(p)
    \/ Score(p)
    \/ InsertRun(p)
    \/ InsertMatch(p)
    \/ Commit(p)

LiveRequests ==
    { Request(path, NoScope, TRUE, RouterWeights(path), NoMethod) : path \in Paths }

NextLive ==
    \/ \E r \in LiveRequests : Start(1, r)
    \/ StepNoError(1)

SpecLive == Init /\ [][NextLive]_vars /\ WF_vars(StepNoError(1))

\* ------------------------------------------- the shared configuration
\* POST /ensemble/config: what the body names is written into the global
\* configuration; a field left out, or an empty method name, is skipped
NoUpdate == [ensemble_method |-> NoMethod, method_weights |-> NULL,
             min_score_threshold |-> NULL, skill_weight |-> NULL,
             location_weight |-> NULL, cgpa_weight |-> NULL]

update_ensemble_config(cfg, u) ==
    LET w == [skill    |-> IF u.skill_weight # NULL THEN u.skill_weight
                           ELSE cfg.traditional_weights.skill,
              location |-> IF u.location_weight # NULL THEN u.location_weight
                           ELSE cfg.traditional_weights.location,
              cgpa     |-> IF u.cgpa_weight # NULL THEN u.cgpa_weight
                           ELSE cfg.traditional_weights.cgpa]
        g == [skill    |-> IF u.skill_weight # NULL THEN u.skill_weight
                           ELSE cfg.glove_weights.skill,
              location |-> IF u.location_weight # NULL THEN u.location_weight
                           ELSE cfg.glove_weights.location,
              cgpa     |-> IF u.cgpa_weight # NULL THEN u.cgpa_weight
                           ELSE cfg.glove_weights.cgpa]
    IN  [cfg EXCEPT !.ensemble_method = IF u.ensemble_method # NoMethod
                                        THEN u.ensemble_method ELSE @,
                    !.method_weights = IF u.method_weights # NULL
                                       THEN u.method_weights ELSE @,
                    !.min_score_threshold = IF u.min_score_threshold # NULL
                                            THEN u.min_score_threshold ELSE @,
                    !.traditional_weights = w,
                    !.glove_weights = g]

\* the body posted: the voting method and the location signal alone
ConfigUpdates ==
    { [NoUpdate EXCEPT !.ensemble_method = "voting", !.skill_weight = 0,
                       !.location_weight = WUnit, !.cgpa_weight = 0] }

\* the handler has no await: it runs whole between two steps of the runs.
\* The updates followed are those that arrive while a run waits on the store
\* with its pairs still to score.
ConfigUpdate(u) ==
    /\ \E p \in Procs : pc[p] \in {"read", "score"}
    /\ ensemble_config' = update_ensemble_config(ensemble_config, u)
    /\ ensemble_config' # ensemble_config
    /\ UNCHANGED <<glove_model_cache, resp, bench, capacity, gloveFile, alloc_run, match_result,
                   next_run_id, pc, req, snap, plan, tx, rid, ret, started>>

\* ensemble runs whose callers give every weight and the method: the skill
\* signal alone under max_score from one caller, the default weights under
\* weighted from the next
SharedRequest(p) ==
    IF p % 2 = 1
    THEN Request("ensemble", NoScope, FALSE, Weights(WUnit, 0, 0), "max_score")
    ELSE Request("ensemble", NoScope, FALSE, DefaultWeights, "weighted")

\* two callers, each of which posts one request
SharedProcs == { p \in Procs : p <= 2 }

InitShared ==
    /\ Init
    /\ capacity = [j \in Jobs |-> 1]

NextShared ==
    \/ \E p \in SharedProcs :
          \/ pc[p] = "idle" /\ \E r \in {SharedRequest(p)} : Start(p, r)
          \/ StepNoError(p)
    \/ \E u \in ConfigUpdates : ConfigUpdate(u)

SpecShared == InitShared /\ [][NextShared]_vars

\* ------------------------------------------- unrecognized method names
\* EnsembleAllocationRequest.ensemble_method is any string
KnownMethods == {"weighted", "max_score", "voting"}
UnknownMethod == "median"

UnknownRequests ==
    { Request("ensemble", NoScope, FALSE, NoWeights, UnknownMethod),
      Request("ensemble", NoScope, TRUE, Weights(WUnit, 0, 0), UnknownMethod),
      Request("ensemble", NoScope, TRUE, NoWeights, "max_score") }

NextUnknown ==
    \/ \E r \in UnknownRequests : Start(1, r)
    \/ Step(1)

SpecUnknown == Init /\ [][NextUnknown]_vars

\* ------------------------------------------------------------ the claims
\* the committed row of a run, and the committed match rows of a run
RunOf(id) == CHOOSE r \in alloc_run : r.run_id = id
RowsOf(id) == { m \in match_result : m.run_id = id }
RowsAt(j) == { m \in SuccessRows(alloc_run, match_result) : m.internship_id = j }
Writing(p) == pc[p] \in {"insert_run", "insert_match", "commit"}

\* C1: after any sequence of runs that were all incremental
\* (respect_existing = true), executed one after the other, no internship has
\* more match rows over all SUCCESS runs than its capacity.
C1_CapacityNeverExceeded ==
    (\A r \in alloc_run : r.respect_existing)
        => \A j \in Jobs : Cardinality(RowsAt(j)) <= capacity[j]

\* an internship filled to its capacity by the rows of two incremental runs
C1_Witness ==
    /\ \A r \in alloc_run : r.respect_existing
    /\ \E j \in Jobs :
          /\ Cardinality(RowsAt(j)) = capacity[j]
          /\ \E m1, m2 \in RowsAt(j) : m1.run_id # m2.run_id

\* C2: no student appears in two match rows of the same run, whichever of
\* the three paths produced the run.
C2_OneRowPerStudent ==
    \A m1, m2 \in match_result :
        (m1.run_id = m2.run_id /\ m1.student_id = m2.student_id) => m1 = m2

\* a Hungarian run and a greedy run that each placed two students
C2_Witness ==
    /\ \E r \in alloc_run : r.algorithm = "hungarian" /\ Cardinality(RowsOf(r.run_id)) >= 2
    /\ \E r \in alloc_run : /\ r.algorithm \in {"ensemble_greedy", "nlp_glove"}
                            /\ Cardinality(RowsOf(r.run_id)) >= 2

\* C4: a student with a match row in an earlier run is not among the
\* students a later incremental run considers, and gets no row from it, also
\* when its scope list names the student.
C4_FrozenExcluded ==
    /\ \A m1, m2 \in match_result :
          (m1.student_id = m2.student_id /\ m1.run_id < m2.run_id)
              => ~RunOf(m2.run_id).respect_existing
    /\ \A p \in Procs :
          (Writing(p) /\ req[p].respect_existing)
              => \A m \in match_result : m.student_id \notin plan[p].students

\* an incremental run finished whose scope list named a student placed earlier
C4_Witness ==
    /\ pc[1] = "done"
    /\ req[1].respect_existing
    /\ \E m \in match_result :
          /\ m.run_id < ret[1]
          /\ StudentEmail(m.student_id) \in Range(CleanScope(req[1].scope))

\* C3: for every interleaving of the read and write points of concurrently
\* triggered incremental invocations, no internship ends up with more match
\* rows over all SUCCESS runs than its capacity.
C3_NoOvercommitUnderInterleaving ==
    \A j \in Jobs : Cardinality(RowsAt(j)) <= capacity[j]

\* C5: a run whose scope list is given and holds no entry after cleaning (an
\* empty list, or blank entries only) records a SUCCESS run with no match
\* row and returns its id.
C5_EmptyScopeIsNoOp ==
    \A p \in Procs :
        (pc[p] = "done" /\ ~req[p].scope.none /\ CleanScope(req[p].scope) = <<>>)
            => /\ \E r \in alloc_run : r.run_id = ret[p] /\ r.status = "SUCCESS"
               /\ RowsOf(ret[p]) = {}

\* C6: an incremental run builds its frozen students and its consumed
\* capacity counts from exactly the match rows of the most recent SUCCESS run.
C6_FrozenFromLatestRun ==
    \A p \in Procs :
        (pc[p] = "score" /\ req[p].respect_existing /\ alloc_run # {})
            => LET latest == CHOOSE r \in alloc_run :
                                \A q \in alloc_run : q.run_id <= r.run_id
                   rows   == RowsOf(latest.run_id)
               IN  /\ snap[p].frozen = { m.student_id : m \in rows }
                   /\ snap[p].used =
                        [j \in Jobs |-> Cardinality({ m \in rows : m.internship_id = j })]

\* C7: a run that finds no eligible student, or no internship with remaining
\* capacity, does not fail: it commits a SUCCESS run carrying the note and no
\* match row, and returns that run's id.
C7_EarlyExitRecordsSuccessRun ==
    \A p \in Procs :
        plan[p].exit \in {"no eligible students in scope", "no open capacity"}
            => /\ pc[p] # "failed"
               /\ pc[p] = "done"
                    => /\ \E r \in alloc_run : /\ r.run_id = ret[p]
                                               /\ r.status = "SUCCESS"
                                               /\ r.note = plan[p].exit
                       /\ RowsOf(ret[p]) = {}

\* C8: the write set of a run is atomic.  While a run is writing, and after
\* a statement of it failed, neither its run row nor any of its match rows is
\* visible; the tables change only at the commit, which makes the run row and
\* all the match rows of the run visible together.
C8_AtomicWriteSet ==
    /\ [](\A p \in Procs :
            /\ (pc[p] \in {"insert_match", "commit", "failed"} /\ rid[p] # NULL)
                  => /\ \A r \in alloc_run : r.run_id # rid[p]
                     /\ \A m \in match_result : m.run_id # rid[p]
            /\ pc[p] = "done"
                  => /\ \E r \in alloc_run : r.run_id = ret[p]
                     /\ Cardinality(RowsOf(ret[p])) = Len(plan[p].rows))
    /\ [][(alloc_run' # alloc_run \/ match_result' # match_result)
            => \E p \in Procs :
                 /\ pc[p] = "commit" /\ pc'[p] = "done"
                 /\ \E r \in alloc_run' \ alloc_run :
                       /\ alloc_run' = alloc_run \cup {r}
                       /\ r.run_id = rid[p]
                 /\ match_result \subseteq match_result'
                 /\ \A m \in match_result' \ match_result : m.run_id = rid[p]
                 /\ Cardinality(match_result' \ match_result) = Len(plan[p].rows)]_vars

\* a run failed after its run row was written, with two match rows to write,
\* while an earlier run is committed
C8_Witness ==
    /\ pc[1] = "failed"
    /\ rid[1] # NULL
    /\ Len(plan[1].rows) >= 2
    /\ \E r \in alloc_run : Cardinality(RowsOf(r.run_id)) >= 2

\* C9 as stated: whatever weights the caller gives, every persisted
\* final_score lies in [0, 1].
C9_FinalScoreInUnitInterval ==
    \A m \in match_result : 0 <= m.final_score /\ m.final_score <= Round4One

\* C9, amended: in a run whose weights are not negative and sum to at most 1
\* (the ensemble method weights at their defaults), every persisted
\* final_score lies in [0, 1].
C9_FinalScoreInUnitIntervalForConvexWeights ==
    \A m \in match_result :
        LET w == RunOf(m.run_id).weights
        IN  (/\ w.skill >= 0 /\ w.location >= 0 /\ w.cgpa >= 0
             /\ w.skill + w.location + w.cgpa <= WUnit)
                => 0 <= m.final_score /\ m.final_score <= Round4One

\* a Hungarian run with the whole weight on the skill signal persisted the
\* score 1.0, and an ensemble run with these weights persisted a match
C9_Witness ==
    /\ \E m \in match_result : /\ RunOf(m.run_id).weights = Weights(WUnit, 0, 0)
                               /\ RunOf(m.run_id).algorithm = "hungarian"
                               /\ m.final_score = Round4One
    /\ \E m \in match_result : /\ RunOf(m.run_id).weights = Weights(WUnit, 0, 0)
                               /\ RunOf(m.run_id).algorithm = "ensemble_greedy"

\* C10: no persisted match pairs a student whose cgpa is known and below the
\* internship's min_cgpa with that internship; a student whose cgpa is NULL
\* passes the gate.
C10_GateOnKnownCgpa ==
    /\ \A m \in match_result :
          StudentCgpa(m.student_id) # NULL
              => StudentCgpa(m.student_id) >= JobMinCgpa(m.internship_id)
    /\ \A s \in Students, j \in Jobs : StudentCgpa(s) = NULL => CgOk(s, j)

\* a finished run that had a student below the threshold of an open
\* internship among its students, and matched the student with no cgpa to
\* an internship that asks for one
C10_Witness ==
    /\ \E m \in match_result : /\ StudentCgpa(m.student_id) = NULL
                               /\ JobMinCgpa(m.internship_id) > 0
    /\ \E p \in Procs :
          /\ pc[p] = "done"
          /\ plan[p].exit = ""
          /\ \E s \in plan[p].students, j \in Jobs :
                /\ plan[p].remaining[j] > 0
                /\ StudentCgpa(s) # NULL
                /\ StudentCgpa(s) < JobMinCgpa(j)

\* C11: every persisted match of a plain run and of an ensemble run has a
\* final_score at or above min_score_threshold, and skill and location
\* components at or above min_skill_match and min_location_match.
C11_PersistedAboveFloors ==
    \A m \in match_result :
        LET r == RunOf(m.run_id)
            c == IF r.algorithm = "hungarian"
                 THEN TraditionalSignals(m.student_id, m.internship_id)
                 ELSE GloveSignals(m.student_id, m.internship_id, gloveFile)
        IN  r.algorithm \in {"hungarian", "ensemble_greedy"}
              => /\ m.final_score * WUnit >= ensemble_config.min_score_threshold * Round4One
                 /\ Round4Sig(c.skill) >= ensemble_config.validation.min_skill_match
                 /\ Round4Sig(c.location) >= ensemble_config.validation.min_location_match

\* C12 as stated: on every score matrix the cells the Hungarian solver keeps
\* total at least what the cells of the greedy sweep total.
C12_OptimalDominatesGreedy ==
    bench.pc = "swept" => BenchTotal(bench.assigned) >= BenchTotal(bench.greedy)

\* C12, amended: on every score matrix without a negative cell the cells
\* the Hungarian solver keeps total at least what the cells of the greedy
\* sweep total.
C12_OptimalDominatesGreedyOnNonNegative ==
    (/\ bench.pc = "swept"
     /\ \A s \in bench.students, j \in Jobs : bench.score_matrix[s][j] >= 0)
        => BenchTotal(bench.assigned) >= BenchTotal(bench.greedy)

\* a matrix without a negative cell on which the greedy sweep placed a
\* student and the Hungarian solver did strictly better
C12_Witness ==
    /\ bench.pc = "swept"
    /\ \A s \in bench.students, j \in Jobs : bench.score_matrix[s][j] >= 0
    /\ bench.greedy # {}
    /\ BenchTotal(bench.assigned) > BenchTotal(bench.greedy)

\* C13: two runs of the Hungarian path with the same arguments that read the
\* same run history (and so the same students and remaining capacity)
\* persist the same set of (student, internship, score) matches.
C13_SameSnapshotSameMatches ==
    \A p, q \in Procs :
        (/\ pc[p] = "done" /\ pc[q] = "done"
         /\ req[p].path = "hungarian" /\ req[q] = req[p]
         /\ snap[p] = snap[q])
            => { <<m.student_id, m.internship_id, m.final_score>> : m \in RowsOf(ret[p]) }
                 = { <<m.student_id, m.internship_id, m.final_score>> : m \in RowsOf(ret[q]) }

\* C14: a run gives an internship at most max(0, capacity - consumed) new
\* matches, with consumed as the run read it at its start; an internship
\* with no remaining capacity gets none.
C14_NewMatchesWithinRemaining ==
    \A p \in Procs :
        pc[p] = "done"
            => \A j \in Jobs :
                 Cardinality({ m \in RowsOf(ret[p]) : m.internship_id = j })
                    <= Max(0, capacity[j] - snap[p].used[j])

\* a finished run that found one internship consumed to its capacity and
\* filled another one exactly to what remained of it
C14_Witness ==
    \E p \in Procs :
        /\ pc[p] = "done"
        /\ \E j \in Jobs : capacity[j] > 0 /\ snap[p].used[j] >= capacity[j]
        /\ \E j \in Jobs :
              /\ capacity[j] > snap[p].used[j]
              /\ Cardinality({ m \in RowsOf(ret[p]) : m.internship_id = j })
                    = capacity[j] - snap[p].used[j]

\* C15: in a run whose scope list names at least one email, the students
\* considered are exactly the students whose email is in the list, less the
\* students with a match row of a SUCCESS run when respect_existing is set;
\* every match the run persists is of a student in the list.
C15_ScopeIsAnAllowList ==
    \A p \in Procs :
        CleanScope(req[p].scope) # <<>>
            => LET listed == { s \in Students :
                                 StudentEmail(s) \in Range(req[p].scope.emails) }
                   placed == { m.student_id : m \in SuccessRows(alloc_run, match_result) }
               IN  /\ Writing(p)
                     => plan[p].students
                          = listed \ (IF req[p].respect_existing THEN placed ELSE {})
                   /\ pc[p] = "done"
                     => \A m \in RowsOf(ret[p]) : m.student_id \in listed

\* a scoped run persisted a match while a student outside its list is still
\* without one, and a scoped incremental run now finds its only student placed
C15_Witness ==
    /\ \E r \in alloc_run : r.scoped /\ RowsOf(r.run_id) # {}
    /\ \E s \in Students : \A m \in match_result : m.student_id # s
    /\ \E p \in Procs :
          /\ pc[p] = "insert_run"
          /\ CleanScope(req[p].scope) # <<>>
          /\ req[p].respect_existing
          /\ plan[p].students = {}

C17_FailureSurfacedAsFailure ==
    \A p \in Procs :
        pc[p] = "failed"
           => /\ resp[p].code = 500
              /\ resp[p].cause # ""
              /\ \A r \in alloc_run : r.run_id # rid[p]
              /\ \A m \in match_result : m.run_id # rid[p]

\* C18: an ensemble run invoked without weights scores with 0.65 / 0.20 /
\* 0.15, and with the weighted method when it names none, whatever earlier
\* invocations supplied: its run row and match rows are those the initial
\* configuration, updated by this request alone, produces.
C18_UnsetWeightsMeanDefaults ==
    \A p \in Procs :
        (Writing(p) /\ req[p].path = "ensemble" /\ req[p].weights = NoWeights)
           => /\ plan[p].run.weights = DefaultWeights
              /\ req[p].ensemble_method = NoMethod => plan[p].run.ensemble_method = "weighted"
              /\ plan[p] \in Plans(req[p], snap[p], capacity,
                                   UpdateEnsembleConfig(InitialEnsembleConfig, req[p]),
                                   gloveFile)

\* C19: over every interleaving of the callers the table is loaded at most
\* once, and once a load has succeeded every call returns that one table
\* and loads nothing.
C19_LoadedAtMostOnce ==
    LET g == glove_model_cache
    IN  /\ g.loads <= 1
        /\ g.cache = g.loads
        /\ \A p \in Procs : g.pc[p] = "returned" => g.got[p] = 1

\* two callers hold the one table, one of them having first met the missing
\* file, and the file is gone again
C19_Witness ==
    LET g == glove_model_cache
    IN  /\ g.loads = 1
        /\ \E p \in Procs : g.calls[p] = MaxRuns
        /\ ~gloveFile
        /\ \A p \in Procs : p <= 2 => g.pc[p] = "returned" /\ g.got[p] = 1

\* C20: without the embedding file the scorer gives the lexical score and
\* never raises, weights left unset included: no run ends on an exception
\* of the scorer.
C20_FallbackNeverRaises ==
    \A p \in Procs :
        ~gloveFile /\ req[p].path = "nlp"
           => ~(pc[p] = "failed" /\ resp[p].cause = "TypeError")

\* C21: alloc_run and match_result are append-only: every step keeps each
\* committed row as it is, and a row it adds carries a run id no earlier
\* alloc_run row has.
C21_RowsAppendOnly ==
    [][/\ alloc_run \subseteq alloc_run'
       /\ match_result \subseteq match_result'
       /\ \A r \in alloc_run' \ alloc_run : \A q \in alloc_run : q.run_id # r.run_id]_vars

\* a later run has placed a student again and the row of the earlier run is
\* still there beside the new one
C21_Witness ==
    \E m1, m2 \in match_result :
        /\ m1.student_id = m2.student_id
        /\ m1.run_id < m2.run_id
        /\ \E r \in alloc_run : r.run_id = m1.run_id

VotingRows(p) ==
    IF pc[p] = "insert_run" /\ req[p].path = "ensemble"
          /\ plan[p].run.ensemble_method = "voting"
    THEN Range(plan[p].rows) ELSE {}

\* per signal the larger of the lexical and the semantic component, as the
\* components are reported (rounded to 4 places), recombined with weights w
VotingComposite(s, j, w) ==
    LET t == TraditionalSignals(s, j)
        g == GloveSignals(s, j, gloveFile)
        u == SigScale \div Round4One
    IN  WUnit * WeightedSum(w, u * Max(Round4Sig(t.skill), Round4Sig(g.skill)),
                               u * Max(Round4Sig(t.location), Round4Sig(g.location)),
                               u * Max(Round4Sig(t.cgpa), Round4Sig(g.cgpa)))

HungarianRows(p) ==
    IF pc[p] = "insert_run" /\ req[p].path = "hungarian" /\ plan[p].exit = ""
    THEN Range(plan[p].rows) ELSE {}

\* the expanded slots of a plan: the sum of the remaining capacities
PlanSlots(p) ==
    SumOver(plan[p].remaining, { j \in Jobs : plan[p].remaining[j] > 0 })

C25_NoBlockingPair ==
    bench.pc = "swept"
       => \A x \in SweepAccepted \ bench.greedy :
             \/ \E k \in Jobs :
                   /\ <<x[1], k>> \in bench.greedy
                   /\ bench.score_matrix[x[1]][k] >= bench.score_matrix[x[1]][x[2]]
             \/ /\ Cardinality(SweepHolders(x[2])) = bench.remaining[x[2]]
                /\ \A t \in SweepHolders(x[2]) :
                      bench.score_matrix[t][x[2]] >= bench.score_matrix[x[1]][x[2]]

\* the sweep is done; one student with an accepted pair is left without an
\* internship, the seat having gone to a higher score, and another accepted
\* pair was passed over, with a seat of its internship still free, because
\* its student holds a higher-scored pair
C25_Witness ==
    /\ bench.pc = "swept"
    /\ \E x \in SweepAccepted :
          /\ \A k \in Jobs : <<x[1], k>> \notin bench.greedy
          /\ \E t \in SweepHolders(x[2]) :
                bench.score_matrix[t][x[2]] > bench.score_matrix[x[1]][x[2]]
    /\ \E x \in SweepAccepted \ bench.greedy :
          /\ Cardinality(SweepHolders(x[2])) < bench.remaining[x[2]]
          /\ \E k \in Jobs :
                /\ <<x[1], k>> \in bench.greedy
                /\ bench.score_matrix[x[1]][k] > bench.score_matrix[x[1]][x[2]]

\* the configuration in which the caller of p asked its pairs to be scored
OwnConfig(p) == UpdateEnsembleConfig(ensemble_config, req[p])

\* the rows an ensemble run has scored and is about to write
EnsembleRows(p) ==
    IF pc[p] = "insert_run" /\ req[p].path = "ensemble" /\ plan[p].exit = ""
    THEN Range(plan[p].rows) ELSE {}

\* C26: with ensemble invocations of different weights and methods running
\* at once, and configuration updates arriving between their steps, each
\* run scores its pairs with the weights and the method its own caller gave.
C26_OwnWeightsAndMethod ==
    \A p \in Procs :
        \A m \in EnsembleRows(p) :
            m.final_score = Round4E(ensemble_score(m.student_id, m.internship_id,
                                                   OwnConfig(p), gloveFile))

\* the configuration a committed ensemble run row reports: its weights and
\* its method, and the fields no request and no update of the model touches
RecordedConfig(r) ==
    [InitialEnsembleConfig EXCEPT !.traditional_weights = r.weights,
                                  !.glove_weights = r.weights,
                                  !.ensemble_method = r.ensemble_method]

EnsembleRuns == { r \in alloc_run : r.algorithm = "ensemble_greedy" }

\* C29: the weights and the method in the record of an ensemble run are
\* those its persisted matches were scored with, whatever other invocations
\* and configuration updates ran between its steps.
C29_RecordIsWhatScored ==
    \A r \in EnsembleRuns :
        \A m \in RowsOf(r.run_id) :
            m.final_score = Round4E(ensemble_score(m.student_id, m.internship_id,
                                                   RecordedConfig(r), gloveFile))

\* an ensemble run has committed rows scored under the method voting, which
\* no caller asked for: an update rewrote the configuration while the run
\* waited, and the record reports the rewritten weights and method
C29_Witness ==
    \E p \in Procs :
        /\ pc[p] = "done" /\ req[p].path = "ensemble"
        /\ \E r \in EnsembleRuns :
              /\ r.run_id = rid[p]
              /\ RowsOf(r.run_id) # {}
              /\ r.weights # req[p].weights
              /\ r.ensemble_method = "voting"

\* steps 2-5 of a resolver on a run history: the students it hands to the
\* scorer and the remaining capacity of every internship
Resolved(path, r, runs, matches, cap) ==
    LET sn == FreezeExisting(path, r.respect_existing, runs, matches)
    IN  [students  |-> EligibleStudents(r.scope, r.respect_existing, sn.frozen),
         remaining |-> Remaining(cap, sn.used)]

\* C28: on the same run history, internships, students, scope and
\* respect_existing flag, the resolver of run_allocation and the resolver of
\* run_ensemble_allocation compute the same eligible students and the same
\* remaining capacity per internship, also when respect_existing is false.
C28_ResolversAgree ==
    \A p \in Procs :
        (pc[p] = "score" /\ req[p].path \in {"hungarian", "ensemble"})
           => Resolved("hungarian", req[p], alloc_run, match_result, capacity)
                 = Resolved("ensemble", req[p], alloc_run, match_result, capacity)

\* C27: for every interleaving of two concurrently triggered incremental
\* invocations, no student ends up with match rows in two different SUCCESS
\* runs: a student placed by one of the runs is not placed by the other.
C27_PlacedOnceUnderInterleaving ==
    \A m1, m2 \in SuccessRows(alloc_run, match_result) :
        m1.student_id = m2.student_id => m1.run_id = m2.run_id

\* the run row and the rows of a run of p scored under the weighted method
\* with everything else as the configuration holds it
WeightedPlans(p) ==
    Plans(req[p], snap[p], capacity,
          [ensemble_config EXCEPT !.ensemble_method = "weighted"], gloveFile)

\* C30: an ensemble method name outside weighted, max_score and voting is not
\* rejected: it is stored in the global configuration, every pair is scored
\* exactly as under weighted, and the run's record reports the unrecognized
\* name as its method.
C30_UnknownMethodScoresAsWeighted ==
    \A p \in Procs :
        (req[p].path = "ensemble" /\ req[p].ensemble_method \notin KnownMethods \cup {NoMethod})
           => /\ pc[p] # "idle" => ensemble_config.ensemble_method = req[p].ensemble_method
              /\ pc[p] # "failed" => resp[p].code \in {0, 200}
              /\ (pc[p] = "insert_run" /\ plan[p].exit = "")
                    => /\ plan[p].run.ensemble_method = req[p].ensemble_method
                       /\ \E pl \in WeightedPlans(p) : pl.rows = plan[p].rows
              /\ (pc[p] = "done" /\ plan[p].exit = "")
                    => \E r \in alloc_run :
                          /\ r.run_id = ret[p] /\ r.status = "SUCCESS"
                          /\ r.ensemble_method = req[p].ensemble_method

\* a run under an unrecognized name has committed rows, one of them with a
\* score that max_score would not have given it, after a max_score run
C30_Witness ==
    /\ pc[1] = "done" /\ req[1].ensemble_method = UnknownMethod
    /\ ensemble_config.ensemble_method = UnknownMethod
    /\ \E r \in alloc_run : r.ensemble_method = "max_score"
    /\ \E r \in alloc_run :
          /\ r.run_id = ret[1] /\ r.ensemble_method = UnknownMethod
          /\ \E m \in RowsOf(r.run_id) :
                m.final_score # Round4E(ensemble_score(m.student_id, m.internship_id,
                                   [ensemble_config EXCEPT !.ensemble_method = "max_score"],
                                   gloveFile))

====
